---- MODULE Spec2Model ----
(***************************************************************************)
(* A model of address_hammer: the Zipper combinator engine                 *)
(* (__zipper__.py), the address grammar and Parser (__parsing__.py) and    *)
(* the two-pass smart_batch repair.                                        *)
(*                                                                         *)
(* Representation.  A string is modelled by the sequence of its            *)
(* whitespace-separated upper-case words (what str.split() returns after   *)
(* Parser.__tokenize__'s character-level normalisation).  A word is the    *)
(* non-empty sequence of its underscore-separated parts: <<"DALLAS">> is   *)
(* DALLAS and <<"NEW", "YORK">> is NEW_YORK.  A token is one word.  So     *)
(* << <<"NEW", "YORK">> >> is the string "NEW_YORK" and                    *)
(* << <<"NEW">>, <<"YORK">> >> is the string "NEW YORK".                   *)
(***************************************************************************)
EXTENDS Integers, Sequences, FiniteSets, TLC

VARIABLES
    known_cities,   \* Parser.known_cities of the Parser under test (a list of cities)
    required_order, \* the order in which this process iterates the set Parser.required
    s,              \* the argument _s of the Parser.__call__ under observation
    phase,          \* "idle" before the call, "called" after it
    checked,        \* the argument checked of that call
    outcome,        \* what the call returned or raised
    trace,          \* engine states of the call's pipeline, one per step (history)
    again,          \* the second parse of the same string: by which Parser, and its outcome
    adds,           \* smart_batch: the batch, a list of strings
    pass,           \* smart_batch: "pass1", "built", "pass2", "done", "raised", or "off"
    idx,            \* smart_batch: position of the running for-loop
    errs,           \* smart_batch: errs, as the batch positions of the deferred strings
    cities,         \* smart_batch: the set cities
    p2_cities,      \* smart_batch: known_cities of the Parser built for pass 2
    yielded,        \* smart_batch: what the iterator has yielded, in order (history)
    reported,       \* smart_batch: the calls of report_error, in order (history)
    probed,         \* smart_batch: calls of the supplied Parser before and after the run
    zdata,          \* Zipper: the token list of the GenericInput under the engine states
    zs,             \* Zipper: the Zipper objects made so far, [state, results]
    heap,           \* Zipper: the results objects (lists and merge's generators)
    zorigin,        \* Zipper: how each Zipper object was made, and from what (history)
    zlast,          \* Zipper: the last operation applied (history)
    view,           \* GenericInput: the view under observation, [data, state]
    vlast           \* GenericInput: the last method called on a view (history)

callVars == <<s, phase, checked, outcome, trace, again>>
batchVars == <<adds, pass, idx, errs, cities, p2_cities, yielded, reported, probed>>
zipVars == <<zdata, zs, heap, zorigin, zlast>>
inputVars == <<view, vlast>>
vars == <<known_cities, required_order, callVars, batchVars, zipVars, inputVars>>

----------------------------------------------------------------------------
(* Bounds of the model *)

\* longest input string (in words) enumerated exhaustively
MaxLen == 3

\* longest batch given to smart_batch
MaxBatch == 3

\* longest token list under the Zipper objects
MaxTokens == 3

\* most Zipper objects made in one run
MaxObjs == 3

\* how far past the end of its tokens a GenericInput is followed
MaxPast == 2

----------------------------------------------------------------------------
(* Word lists and token classes *)

\* st_suffices.txt (the words of it the model uses)
st_suffices == <<"RD", "ST">>

st_NESWs == <<"NE", "NW", "SE", "SW", "N", "S", "E", "W">>

\* us_states.txt (the words of it the model uses)
us_states == <<"TX", "OH">>

\* unit_types.txt (the words of it the model uses)
unit_types == <<"APT", "STE">>

\* words made of digits only
DigitWords == {"123", "5", "78701"}

\* words made of exactly five digits
FiveDigitWords == {"78701"}

\* words made of one letter
LetterWords == {"A", "N", "S", "E", "W"}

\* what follows the "#" of the words written with one: "#5", "#A"
HashTails == DigitWords \cup LetterWords

\* does the word part hold a "#" (in the model's words it is in front)
has_hash(part) == part = "#" \/ \E d \in HashTails : part = "#" \o d

\* part.replace("#", "")
strip_hash(part) ==
    IF part = "#" THEN ""
    ELSE IF \E d \in HashTails : part = "#" \o d
         THEN CHOOSE d \in HashTails : part = "#" \o d
         ELSE part

\* the token without a character
EmptyWord == <<"">>

\* the one element of a one-element set; The({F(x) : x \in {e}}) is F(e)
\* with e evaluated once
The(set) == CHOOSE x \in set : TRUE

\* one-word tokens for each word of a list
Alts(words) == [i \in 1..Len(words) |-> <<words[i]>>]

\* regex.or_(strs): an alternation over whole words
regex_or(alts) == [re |-> "or", alts |-> alts]

st_suffix_R == regex_or(Alts(st_suffices))
st_NESW_R == regex_or(Alts(st_NESWs))
us_state_R == regex_or(Alts(us_states))
unit_R == regex_or(Alts(unit_types))
unit_identifier_R == [re |-> "unit_identifier", alts |-> <<>>]
zip_code_R == [re |-> "d5", alts |-> <<>>]
house_number_R == [re |-> "digits_slash", alts |-> <<>>]
word_R == [re |-> "word", alts |-> <<>>]
digits_R == [re |-> "digits", alts |-> <<>>]

InSeq(x, sq) == \E i \in 1..Len(sq) : sq[i] = x

\* does \w+ match the whole token: it is not empty and holds no "#" (the
\* underscores between its parts are word characters)
is_word(tok) == tok # EmptyWord /\ \A j \in 1..Len(tok) : ~has_hash(tok[j])

\* regex.match(token, pattern): does the pattern match the token
regex_match(tok, pat) ==
    CASE pat.re = "or" -> InSeq(tok, pat.alts)
      [] pat.re = "or_word" -> InSeq(tok, pat.alts) \/ is_word(tok)
      [] pat.re = "word" -> is_word(tok)
      [] pat.re = "digits" -> Len(tok) = 1 /\ tok[1] \in DigitWords
      [] pat.re = "digits_slash" -> Len(tok) = 1 /\ tok[1] \in DigitWords
      [] pat.re = "d5" -> Len(tok) = 1 /\ tok[1] \in FiveDigitWords
      [] pat.re = "unit_identifier" ->
            Len(tok) = 1 /\ strip_hash(tok[1]) \in (DigitWords \cup LetterWords)

----------------------------------------------------------------------------
(* Errors and rule results *)

\* a rule (token -> Seq[ParseStep]) returned out
Ret(out) == [raised |-> "none", reason |-> "", out |-> out]

\* a rule raised an exception of class kind
Raise(kind, reason) == [raised |-> kind, reason |-> reason, out |-> <<>>]

\* except tuple(ex_types): is an exception of class kind caught
Catches(ex_types, kind) ==
    \/ kind \in ex_types
    \/ kind = "EndOfAddressError" /\ "ParseError" \in ex_types

ParseStep(label, value) == [label |-> label, value |-> value]

\* __make_stops_on__(stop_patterns)(tok)
stops_on(stop_patterns, tok) ==
    \E i \in 1..Len(stop_patterns) : regex_match(tok, stop_patterns[i])

AddressComponent(label, pat, optional, stops) ==
    [fn |-> "arrow_parse", label |-> label, compiled_pattern |-> pat,
     optional |-> optional, stops_on |-> stops]

\* AddressComponent.arrow_parse()(tok)
arrow_parse(c, tok) ==
    IF stops_on(c.stops_on, tok) THEN Ret(<<>>)
    ELSE IF ~regex_match(tok, c.compiled_pattern)
         THEN IF c.optional THEN Ret(<<>>) ELSE Raise("ParseError", c.label)
         ELSE Ret(<<ParseStep(c.label, <<tok>>)>>)

_HOUSE_NUMBER == AddressComponent("house_number", house_number_R, FALSE, <<>>)
_ST_NESW == AddressComponent("st_NESW", st_NESW_R, FALSE, <<>>)
_ST_SUFFIX == AddressComponent("st_suffix", st_suffix_R, FALSE, <<>>)
_US_STATE == AddressComponent("us_state", us_state_R, FALSE, <<>>)
_ZIP_CODE == AddressComponent("zip_code", zip_code_R, FALSE, <<>>)

\* __make_st_name__(known_cities): known_cities is a list of patterns
make_st_name(city_patterns) ==
    AddressComponent("st_name", word_R, FALSE,
                     <<st_suffix_R, st_NESW_R, unit_R>> \o city_patterns)

\* __chomp_unit__(words); the block holds the tokens the slice found
chomp_unit(words) ==
    IF Len(words) # 2 THEN Raise("AssertionError", "len(words) == 2")
    ELSE LET unitOk == words[1] = <<"#">> \/ regex_match(words[1], unit_R)
             unit == IF words[1] = <<"#">> THEN <<"APT">> ELSE words[1]
             idOk == regex_match(words[2], unit_identifier_R)
         IN IF ~unitOk \/ ~idOk THEN Ret(<<>>)
            ELSE Ret(<<ParseStep("unit", <<unit, words[2]>>)>>)

\* the test rules of __zipper__.test
fan_odd(n) == IF n % 2 = 0 THEN <<>> ELSE <<n, n + 1, n + 2>>
fan_even(n) == IF n % 2 = 1 THEN <<>> ELSE <<n, n + 1, n + 2>>

\* str.replace("_", " ") on a one-word string: every part becomes a word
replace_underscore(value) ==
    [i \in 1..Len(value[1]) |-> <<value[1][i]>>]

\* __Fns_Of_Parser__.city(tok): city_A's steps with "_" replaced by " "
city_fn(c, tok) ==
    The({ [r EXCEPT !.out = [i \in 1..Len(r.out) |->
            ParseStep(r.out[i].label, replace_underscore(r.out[i].value))]]
          : r \in {arrow_parse(c, tok)} })

\* calling a rule on one token
ApplyRule(rule, tok) ==
    CASE rule.fn = "arrow_parse" -> arrow_parse(rule, tok)
      [] rule.fn = "city" -> city_fn(rule, tok)
      [] rule.fn = "fan_odd" -> Ret(fan_odd(tok))
      [] rule.fn = "fan_even" -> Ret(fan_even(tok))

RECURSIVE chain_fan_odd(_)
\* list(itertools.chain.from_iterable(map(fan_odd, block))) of __zipper__.test,
\* as a rule over a block
chain_fan_odd(block) ==
    IF block = <<>> THEN <<>> ELSE fan_odd(Head(block)) \o chain_fan_odd(Tail(block))

\* calling a list rule on a block of tokens
ApplyListRule(rule, block) ==
    CASE rule.fn = "chomp_unit" -> chomp_unit(block)
      [] rule.fn = "_id" -> Ret(block)
      [] rule.fn = "chain_fan_odd" -> Ret(chain_fan_odd(block))

----------------------------------------------------------------------------
(* GenericInput and Zipper.  An engine state z is [state, results]: the    *)
(* position of its GenericInput (leftover.state) over the token list data, *)
(* and the steps reading its results yields.                               *)

Zipper(state, results) == [state |-> state, results |-> results]

\* an operator returned self, the engine state z it was applied to
Ok(z) == [raised |-> "none", reason |-> "", z |-> z, merged |-> FALSE, other |-> z]

\* an operator raised an exception of class kind
Fail(kind, reason, z) ==
    [raised |-> kind, reason |-> reason, z |-> z, merged |-> FALSE, other |-> z]

\* GenericInput.empty()
empty(data, state) == state + 1 > Len(data)

\* GenericInput.advance(step) raises EndOfInputError
advance_raises(data, state, step) == state + step > Len(data)

\* GenericInput(data, state): a view of the tokens data from position state
GenericInput(data, state) == [data |-> data, state |-> state]

\* a method of a view returned ret, or raised an exception of class kind
Returns(ret) == [raised |-> "none", ret |-> ret]
Raises(kind) == [raised |-> kind, ret |-> <<>>]

\* GenericInput.advance(step)
advance(g, step) ==
    IF advance_raises(g.data, g.state, step) THEN Raises("EndOfInputError")
    ELSE Returns(GenericInput(g.data, g.state + step))

\* GenericInput.rest(): GenericInput(self.data, self.state+1), unchecked
rest(g) == Returns(GenericInput(g.data, g.state + 1))

\* Python's data[k:] for k >= 0
FromIndex(data, k) == SubSeq(data, k + 1, Len(data))

\* GenericInput.as_str(): the items of data[-idx:] for idx the number
\* of items left: the items from the position on, but all of them when idx is 0 (data[-0:] is data[0:])
as_str(g) ==
    LET back == Len(g.data) - g.state
    IN IF back > 0
       THEN FromIndex(g.data, IF back >= Len(g.data) THEN 0 ELSE Len(g.data) - back)
       ELSE FromIndex(g.data, -back)

\* GenericInput.item()
item(g) ==
    IF g.state + 1 > Len(g.data) THEN Raises("EndOfInputError")
    ELSE Returns(g.data[g.state + 1])

\* merge as it would be if it kept the leftover of self
merge_own_leftover(z, other) == Zipper(z.state, z.results \o other.results)

\* Zipper.merge(other): other's leftover, both results in order
merge(z, other) == Zipper(other.state, z.results \o other.results)

\* an operator returned self.merge(other)
Merged(z, other) ==
    [raised |-> "none", reason |-> "", z |-> merge(z, other), merged |-> TRUE,
     other |-> other]

\* no items consumed, no results
NoItems == [raised |-> "none", reason |-> "", n |-> 0, out |-> <<>>]

RECURSIVE TakeLoop(_, _, _, _, _)
\* the for-loop of takewhile over the items data[i+1 .. limit]:
\* how many it consumed, the results it gathered, or what it raised
TakeLoop(data, i, limit, rule, ex_types) ==
    IF i >= limit THEN NoItems
    ELSE The({
        IF r.raised # "none"
        THEN IF Catches(ex_types, r.raised) THEN NoItems
             ELSE [raised |-> r.raised, reason |-> r.reason, n |-> 0, out |-> <<>>]
        ELSE IF Len(r.out) = 0 THEN NoItems
        ELSE The({
            IF more.raised # "none" THEN more
            ELSE [raised |-> "none", reason |-> "",
                  n |-> more.n + 1, out |-> r.out \o more.out]
            : more \in {TakeLoop(data, i + 1, limit, rule, ex_types)} })
        : r \in {ApplyRule(rule, data[i + 1])} })

\* takewhile as it would be if its loop ended after the first item
takewhile_at_most_one(z, data, rule, single, ex_types) ==
    IF single /\ empty(data, z.state) /\ ~Catches(ex_types, "EndOfInputError")
    THEN Fail("EndOfInputError", "", z)
    ELSE The({
            IF loop.raised # "none" THEN Fail(loop.raised, loop.reason, z)
            ELSE Merged(z, Zipper(z.state + loop.n, loop.out))
            : loop \in {TakeLoop(data, z.state,
                                 IF empty(data, z.state) THEN z.state ELSE z.state + 1,
                                 rule, ex_types)} })

\* Zipper.takewhile(pred_arrow, single, ex_types)
takewhile(z, data, rule, single, ex_types) ==
    IF single /\ empty(data, z.state) /\ ~Catches(ex_types, "EndOfInputError")
    THEN Fail("EndOfInputError", "", z)
    ELSE LET limit == IF single
                      THEN (IF empty(data, z.state) THEN z.state ELSE z.state + 1)
                      ELSE Len(data)
         IN The({
            IF loop.raised # "none" THEN Fail(loop.raised, loop.reason, z)
            ELSE Merged(z, Zipper(z.state + loop.n, loop.out))
            : loop \in {TakeLoop(data, z.state, limit, rule, ex_types)} })

\* consume_with as it would be if single=True were not passed on
consume_with_greedy(z, data, rule, ex_types) ==
    takewhile(z, data, rule, FALSE, ex_types)

\* consume_with as it would be if the end of the input were skipped over
\* instead of raised
consume_with_quiet(z, data, rule, ex_types) ==
    IF empty(data, z.state) THEN Ok(z)
    ELSE takewhile(z, data, rule, TRUE, ex_types)

\* Zipper.consume_with(func, ex_types)
consume_with(z, data, rule, ex_types) == takewhile(z, data, rule, TRUE, ex_types)

\* data[state : state + n], a Python slice: it stops at the end of the list
Slice(data, state, n) ==
    SubSeq(data, state + 1, IF state + n > Len(data) THEN Len(data) ELSE state + n)

\* chomp_n as it would be if it moved on without advance's test of the end
chomp_n_unchecked(z, data, n, list_rule, ex_types) ==
    The({
       IF r.raised # "none"
       THEN IF Catches(ex_types, r.raised) THEN Ok(z)
            ELSE Fail(r.raised, r.reason, z)
       ELSE Merged(z, Zipper(z.state + n, r.out))
       : r \in {ApplyListRule(list_rule, Slice(data, z.state, n))} })

\* chomp_n as it would be if it returned self when the rule yields nothing
chomp_n_self_on_empty(z, data, n, list_rule, ex_types) ==
    The({
       IF r.raised # "none"
       THEN IF Catches(ex_types, r.raised) THEN Ok(z)
            ELSE Fail(r.raised, r.reason, z)
       ELSE IF r.out = <<>> THEN Ok(z)
       ELSE IF advance_raises(data, z.state, n)
            THEN IF Catches(ex_types, "EndOfInputError") THEN Ok(z)
                 ELSE Fail("EndOfInputError", "", z)
            ELSE Merged(z, Zipper(z.state + n, r.out))
       : r \in {ApplyListRule(list_rule, Slice(data, z.state, n))} })

\* Zipper.chomp_n(n, list_func, ex_types)
chomp_n(z, data, n, list_rule, ex_types) ==
    The({
       IF r.raised # "none"
       THEN IF Catches(ex_types, r.raised) THEN Ok(z)
            ELSE Fail(r.raised, r.reason, z)
       ELSE IF advance_raises(data, z.state, n)
            THEN IF Catches(ex_types, "EndOfInputError") THEN Ok(z)
                 ELSE Fail("EndOfInputError", "", z)
            ELSE Merged(z, Zipper(z.state + n, r.out))
       : r \in {ApplyListRule(list_rule, Slice(data, z.state, n))} })

RECURSIVE OrLoop(_, _, _, _, _)
\* the for-loop of or_ from the k-th rule on
OrLoop(z, data, rules, k, ex_types) ==
    IF k > Len(rules) THEN Ok(z)
    ELSE IF empty(data, z.state)
         THEN IF Catches(ex_types, "EndOfInputError")
              THEN OrLoop(z, data, rules, k + 1, ex_types)
              ELSE Fail("EndOfInputError", "", z)
         ELSE The({
                 IF r.raised # "none"
                 THEN IF Catches(ex_types, r.raised)
                      THEN OrLoop(z, data, rules, k + 1, ex_types)
                      ELSE Fail(r.raised, r.reason, z)
                 ELSE IF Len(r.out) > 0
                      THEN Merged(z, Zipper(z.state + 1, r.out))
                      ELSE OrLoop(z, data, rules, k + 1, ex_types)
                 : r \in {ApplyRule(rules[k], data[z.state + 1])} })

\* Zipper.or_(funcs, ex_types)
or_(z, data, rules, ex_types) == OrLoop(z, data, rules, 1, ex_types)

----------------------------------------------------------------------------
(* Parser *)

\* the labels of __collect_results__'s dictionary d
Labels == {"house_number", "st_name", "st_suffix", "st_NESW", "unit", "city",
           "us_state", "zip_code"}

\* address.HARD_COMPONENTS
required == {"house_number", "st_name", "city", "us_state"}

\* address.SOFT_COMPONENTS
optional == {"st_suffix", "st_NESW", "unit", "zip_code"}

\* Python's None, as a field value
None == << <<"None">> >>

\* the words of a sequence of strings, in order (" ".join of them)
RECURSIVE Join(_)
Join(values) ==
    IF values = <<>> THEN <<>> ELSE Head(values) \o Join(Tail(values))

\* list(filter(None, known_cities)): the empty strings are dropped
filter_cities(known) == SelectSeq(known, LAMBDA c : c # <<>>)

RECURSIVE Glue(_, _)
\* sep.join(pieces) for pieces that are sequences of symbols
Glue(pieces, sep) ==
    IF pieces = <<>> THEN <<>>
    ELSE IF Len(pieces) = 1 THEN pieces[1]
    ELSE pieces[1] \o <<sep>> \o Glue(Tail(pieces), sep)

\* a string as the sequence of its symbols: a symbol is a space, an
\* underscore, or a run of other characters (a word part, kept whole)
symbols(words) ==
    Glue([i \in 1..Len(words) |->
            Glue([j \in 1..Len(words[i]) |->
                    IF words[i][j] = "" THEN <<>> ELSE <<words[i][j]>>], "_")],
         " ")

RECURSIVE Cut(_, _)
\* the pieces of a string between its separators (str.split(sep): one piece
\* more than there are separators, empty pieces included)
Cut(syms, seps) ==
    LET at == {i \in 1..Len(syms) : syms[i] \in seps}
    IN IF at = {} THEN <<syms>>
       ELSE LET i == CHOOSE i \in at : \A j \in at : i <= j
            IN <<SubSeq(syms, 1, i - 1)>> \o Cut(SubSeq(syms, i + 1, Len(syms)), seps)

\* a piece without separators as a word part
Part(piece) == IF piece = <<>> THEN "" ELSE piece[1]

\* a string without spaces as a token: its parts between the separators
as_token(syms, seps) ==
    LET pieces == Cut(syms, seps) IN [j \in 1..Len(pieces) |-> Part(pieces[j])]

RECURSIVE replace_hash(_)
\* s.replace("#", "APT "): a "#" becomes the word APT and a space, in front
\* of what followed the "#"
replace_hash(syms) ==
    IF syms = <<>> THEN <<>>
    ELSE (IF has_hash(Head(syms))
          THEN <<"APT", " ">> \o
               (IF strip_hash(Head(syms)) = "" THEN <<>> ELSE <<strip_hash(Head(syms))>>)
          ELSE <<Head(syms)>>)
         \o replace_hash(Tail(syms))

RECURSIVE replace_apt_apt(_)
\* s.replace("APT APT", "APT"): from left to right, two APT with one space
\* between them become one, and the scan goes on after them
replace_apt_apt(syms) ==
    IF syms = <<>> THEN <<>>
    ELSE IF Len(syms) >= 3 /\ SubSeq(syms, 1, 3) = <<"APT", " ", "APT">>
         THEN <<"APT">> \o replace_apt_apt(SubSeq(syms, 4, Len(syms)))
         ELSE <<Head(syms)>> \o replace_apt_apt(Tail(syms))

\* Parser.__tokenize__ up to the replacement of the known cities
normalize_text(words) == replace_apt_apt(replace_hash(symbols(words)))

\* normalized_cities of Parser.__init__
normalized_cities(known) == [i \in 1..Len(known) |-> normalize_text(known[i])]

RECURSIVE strip(_)
\* str.strip(): the string without the spaces at its ends
strip(syms) ==
    IF syms = <<>> THEN <<>>
    ELSE IF Head(syms) = " " THEN strip(Tail(syms))
    ELSE IF syms[Len(syms)] = " " THEN strip(SubSeq(syms, 1, Len(syms) - 1))
    ELSE syms

\* city_repl(s): the matched text without the spaces at its ends, its other
\* spaces replaced by underscores, between two spaces
city_repl(matched) ==
    <<" ">> \o [i \in 1..Len(strip(matched)) |->
                  IF strip(matched)[i] = " " THEN "_" ELSE strip(matched)[i]]
    \o <<" ">>

\* normalized_cities_B of Parser.__init__: w.replace(" ", r"[\s_]") of a
\* normalized city, as the token it matches: every space of the city, one
\* that ends the city too, is one separator of the token
normalized_cities_B(known) ==
    [i \in 1..Len(known) |-> as_token(normalized_cities(known)[i], {" ", "_"})]

\* Parser.known_cities_R: the alternation over the normalized known cities
known_cities_R(known) == regex_or(normalized_cities_B(known))

\* does the normalized city match the text at its head: a space of the city
\* stands for [\s_], one space or one underscore of the text
matches_head(city, syms) ==
    /\ Len(city) >= 1 /\ Len(city) <= Len(syms)
    /\ \A j \in 1..Len(city) :
          IF city[j] = " " THEN syms[j] \in {" ", "_"} ELSE syms[j] = city[j]

\* index of the first known city that matches at the head of the text, or 0
FirstCityAt(normalized, syms) ==
    LET hits == {i \in 1..Len(normalized) : matches_head(normalized[i], syms)}
    IN IF hits = {} THEN 0 ELSE CHOOSE i \in hits : \A j \in hits : i <= j

RECURSIVE sub_cities(_, _)
\* re.sub(self.known_cities_R, city_repl, s): from left to right, every
\* match of a known city is replaced by city_repl of it
sub_cities(normalized, syms) ==
    IF syms = <<>> THEN <<>>
    ELSE LET m == FirstCityAt(normalized, syms)
         IN IF m = 0
            THEN <<Head(syms)>> \o sub_cities(normalized, Tail(syms))
            ELSE city_repl(SubSeq(syms, 1, Len(normalized[m])))
                 \o sub_cities(normalized, SubSeq(syms, Len(normalized[m]) + 1, Len(syms)))

\* str.split(): the tokens of a string, the runs of symbols between spaces
split(syms) ==
    LET pieces == SelectSeq(Cut(syms, {" "}), LAMBDA piece : piece # <<>>)
    IN [k \in 1..Len(pieces) |-> as_token(pieces[k], {"_"})]

\* Parser.__tokenize__(s).split(): "#" becomes the word APT, a doubled APT
\* becomes one, then every occurrence of a known city becomes one token
tokenize(known, words) ==
    split(sub_cities(normalized_cities(known), normalize_text(words)))

\* the token __tokenize__ makes of a known city
CityToken(city) == tokenize(<<city>>, city)[1]

\* Parser.__ex_types__
ParserExTypes == {"ParseError"}

\* the default ex_types of the Zipper operators
DefaultExTypes == {"Uncatchable"}

\* the rule Parser.city of a Parser with these known cities
city_rule(known) ==
    [AddressComponent("city",
                      [re |-> "or_word", alts |-> known_cities_R(known).alts],
                      FALSE, <<us_state_R, digits_R>>)
     EXCEPT !.fn = "city"]

\* the rule Parser.st_name of a Parser with these known cities
st_name_rule(known) == make_st_name(<<known_cities_R(known)>>)

\* Apply.consume_with(rule, ex_types), Apply.takewhile(rule, single, ex_types),
\* Apply.chomp_n(n, rule, ex_types) and lambda z: z, as pipeline steps
StepConsume(rule, ex_types) ==
    [op |-> "consume_with", rule |-> rule, single |-> TRUE, n |-> 1, ex_types |-> ex_types]
StepTakewhile(rule, single, ex_types) ==
    [op |-> "takewhile", rule |-> rule, single |-> single, n |-> 1, ex_types |-> ex_types]
StepChomp(n, rule, ex_types) ==
    [op |-> "chomp_n", rule |-> rule, single |-> FALSE, n |-> n, ex_types |-> ex_types]
StepIdentity ==
    [op |-> "identity", rule |-> [fn |-> "_id"], single |-> FALSE, n |-> 0,
     ex_types |-> DefaultExTypes]

\* calling one pipeline step on an engine state
ApplyStep(step, z, data) ==
    CASE step.op = "consume_with" -> consume_with(z, data, step.rule, step.ex_types)
      [] step.op = "takewhile" ->
            takewhile(z, data, step.rule, step.single, step.ex_types)
      [] step.op = "chomp_n" -> chomp_n(z, data, step.n, step.rule, step.ex_types)
      [] step.op = "identity" -> Ok(z)

RECURSIVE Reduce(_, _, _, _, _)
\* Apply.reduce(funcs)(z) from the k-th step on; seen holds the engine
\* states before each step already taken
Reduce(funcs, k, z, data, seen) ==
    IF k > Len(funcs)
    THEN [raised |-> "none", reason |-> "", z |-> z, states |-> Append(seen, z)]
    ELSE The({
            IF r.raised # "none"
            THEN [raised |-> r.raised, reason |-> r.reason, z |-> z,
                  states |-> Append(seen, z)]
            ELSE Reduce(funcs, k + 1, r.z, data, Append(seen, z))
            : r \in {ApplyStep(funcs[k], z, data)} })

\* Parser.__hn_nesw__()
hn_nesw(known) ==
    << StepConsume(_HOUSE_NUMBER, ParserExTypes),
       StepConsume(_ST_NESW, ParserExTypes),
       StepTakewhile(st_name_rule(known), FALSE, ParserExTypes),
       StepTakewhile(_ST_SUFFIX, FALSE, ParserExTypes),
       StepConsume(_ST_NESW, ParserExTypes) >>

\* regex.match(s, unit_R) on the whole tokenized string
has_unit(data) == \E i \in 1..Len(data) : regex_match(data[i], unit_R)

\* data and regex.match(data[-1], zip_code_R)
has_zip(data) == Len(data) > 0 /\ regex_match(data[Len(data)], zip_code_R)

\* the list funcs of Parser.__call__
call_funcs(known, data) ==
    hn_nesw(known)
    \o << IF has_unit(data)
          THEN StepChomp(2, [fn |-> "chomp_unit"], ParserExTypes)
          ELSE StepIdentity,
          StepTakewhile(city_rule(known), FALSE, DefaultExTypes),
          StepConsume(_US_STATE, DefaultExTypes),
          IF has_zip(data) THEN StepConsume(_ZIP_CODE, ParserExTypes)
          ELSE StepIdentity >>

\* the values collected under a label, in order
RECURSIVE Collect(_, _)
Collect(results, label) ==
    IF results = <<>> THEN <<>>
    ELSE (IF Head(results).label = label THEN <<Head(results).value>> ELSE <<>>)
         \o Collect(Tail(results), label)

\* str_to_opt(s): None for a string without a word
str_to_opt(str) == IF split(symbols(str)) = <<>> THEN None ELSE str

\* [n.replace("#", "") for n in d["unit"]]
strip_hashes(values) ==
    [k \in 1..Len(values) |->
        [i \in 1..Len(values[k]) |->
            [j \in 1..Len(values[k][i]) |-> strip_hash(values[k][i][j])]]]

\* the dictionary d of __collect_results__ after its loop over the results
\* (the steps labelled "junk" are in no list)
collected(results) == [l \in Labels |-> Collect(results, l)]

\* d[p_r.label] raises KeyError: a step's label is no key of d
unknown_label(results) ==
    \E i \in 1..Len(results) : results[i].label \notin Labels \cup {"junk"}

\* the dictionary str_d of __collect_results__
str_d(d) ==
    [l \in Labels |->
        IF l \in optional
        THEN str_to_opt(Join(IF l = "unit" THEN strip_hashes(d[l]) ELSE d[l]))
        ELSE Join(d[l])]

NoFields == [l \in Labels |-> <<>>]

\* a call returned the address with these fields
Parsed(orig, fields) ==
    [kind |-> "ok", orig |-> orig, reason |-> <<>>, fields |-> fields]

\* a call raised kind(orig, reason)
Failed(kind, orig, reason) ==
    [kind |-> kind, orig |-> orig, reason |-> reason, fields |-> NoFields]

\* __collect_results__ as it would be without the required-field check
collect_results_unchecked(orig, results, is_checked) ==
    IF unknown_label(results) THEN {Failed("KeyError", <<>>, None)}
    ELSE {Parsed(orig, str_d(collected(results)))}

\* Parser.__collect_results__(_s, results, checked): the set of its possible
\* outcomes (the loop over the set self.required visits it in any order)
collect_results(orig, results, is_checked) ==
    IF unknown_label(results) THEN {Failed("KeyError", <<>>, None)}
    ELSE The({
       LET missing == {req \in required : Len(d[req]) = 0}
       IN IF is_checked /\ missing # {}
          THEN {Failed("ParseError", orig, <<"Could not identify", req>>) : req \in missing}
          ELSE {Parsed(orig, str_d(d))}
       : d \in {collected(results)} })

\* the grammar of Parser.__call__ (after the blank parser's attempt): the
\* pipeline run and the set of possible outcomes
grammar_call(known, orig, is_checked) ==
    The({
      The({
        The({
          [outcomes |->
              IF run.raised = "EndOfInputError"
              THEN {Failed("EndOfAddressError", orig, <<"unknown", "end of input">>)}
              ELSE IF Catches({"ParseError"}, run.raised)
              THEN {Failed("ParseError", orig, <<run.reason>>)}
              ELSE IF run.raised # "none"
              THEN {Failed(run.raised, <<>>, <<run.reason>>)}
              ELSE collect_results(orig, run.z.results, is_checked),
           runs |-> << [known |-> known, data |-> data, raised |-> run.raised,
                        states |-> run.states] >>]
          : run \in {Reduce(funcs, 1, Zipper(0, <<>>), data, <<>>)} })
        : funcs \in {call_funcs(known, data)} })
      : data \in {tokenize(known, orig)} })

\* Parser.__call__ as it would be without the attempt of blank_parse
ParserCall_own_only(known, orig, is_checked) ==
    grammar_call(filter_cities(known), orig, is_checked)

\* Parser.__call__(_s, checked) of a Parser built with these known cities
ParserCall(known, orig, is_checked) ==
    The({
       IF kc # <<>>
       THEN The({
               IF \E o \in blank.outcomes : o.kind = "ok"
               THEN blank
               ELSE The({ [outcomes |-> own.outcomes, runs |-> blank.runs \o own.runs]
                          : own \in {grammar_call(kc, orig, is_checked)} })
               : blank \in {grammar_call(<<>>, orig, is_checked)} })
       ELSE grammar_call(kc, orig, is_checked)
       : kc \in {filter_cities(known)} })

----------------------------------------------------------------------------
(* Single calls of a Parser *)

\* a string of one-part words
Str(words) == [i \in 1..Len(words) |-> <<words[i]>>]

\* the words the inputs are enumerated over
InputWords == {"123", "DALLAS", "HOUSTON", "RD", "APT", "TX"}

\* the strings of exactly n words over InputWords
StringsOfLen(n) == {Str(w) : w \in [1..n -> InputWords]}

\* longer documented addresses
Scenarios ==
    { Str(<<"123", "STRAIGHT", "HOUSTON", "TX">>),
      Str(<<"123", "STRAIGHT", "AUSTIN", "TX">>),
      Str(<<"123", "DALLAS", "HOUSTON", "TX">>),
      Str(<<"123", "DALLAS", "RD", "HOUSTON", "TX">>),
      Str(<<"123", "MAIN", "ST", "NE", "STE", "A", "DALLAS", "TX">>),
      Str(<<"123", "DALLAS", "RD", "N", "APT", "5", "HOUSTON", "TX", "78701">>),
      Str(<<"123", "N", "MAIN", "HOUSTON", "TX", "78701">>),
      Str(<<"123", "MAIN", "ST", "APT">>),
      Str(<<"123", "DALLAS", "RD", "HOUSTON", "TX", "APT", "5">>),
      Str(<<"123", "OLD", "MAIN", "ST", "NE", "DALLAS", "TX">>),
      Str(<<"123", "MAIN", "RD", "#5", "DALLAS", "TX">>),
      Str(<<"123", "MAIN", "RD", "APT", "#", "5", "DALLAS", "TX">>),
      Str(<<"123", "OAK", "MAIN", "#", "TX">>),
      Str(<<"123", "OAK", "MAIN", "APT", "TX">>),
      Str(<<"123", "MAIN", "APT", "TX">>),
      Str(<<"123", "MAIN", "APT", "5", "TX">>),
      Str(<<"123", "MAIN", "#", "TX">>) }

Inputs == UNION {StringsOfLen(n) : n \in 0..MaxLen} \cup Scenarios

\* the known-city lists of the Parsers under test
CityLists ==
    { <<>>, <<Str(<<"HOUSTON">>)>>, <<Str(<<"HOUSTON">>), Str(<<"DALLAS">>)>>,
      <<Str(<<"MAIN", "#">>)>> }

\* the lists list(set) can be: the elements of the set in any order
Orders(set) ==
    {o \in [1..Cardinality(set) -> set] : \A x \in set : \E i \in DOMAIN o : o[i] = x}

\* the orders in which a process can iterate the set Parser.required: every
\* one of its permutations
RequiredOrders == Orders(required)

\* the outcome is the ParseError of __collect_results__ for an empty
\* required field
IsMissing(o) ==
    o.kind = "ParseError" /\ Len(o.reason) = 2 /\ o.reason[1] = "Could not identify"

\* where the loop over self.required meets this field in this process
Met(req) == The({i \in 1..Len(required_order) : required_order[i] = req})

\* the loop of __collect_results__ visiting the fields afresh in any order
\* at each call
InProcess_any_order(outcomes) == outcomes

\* of the outcomes of a call, those it can have in this process: of the
\* errors for an empty required field, the one for the field the loop over
\* self.required meets first
InProcess(outcomes) ==
    {o \in outcomes :
        IsMissing(o) =>
            \A q \in outcomes : IsMissing(q) => Met(o.reason[2]) <= Met(q.reason[2])}

NoOutcome == Failed("none", <<>>, <<>>)

\* no second parse has been made
NoAgain == [by |-> "none", outcome |-> NoOutcome]

\* the supplied Parser has not been called outside the run
NoProbe == [item |-> 0, before |-> NoOutcome, after |-> NoOutcome]

\* no smart_batch is running
BatchOff ==
    /\ adds = <<>> /\ pass = "off" /\ idx = 0 /\ errs = <<>> /\ cities = {}
    /\ p2_cities = <<>> /\ yielded = <<>> /\ reported = <<>> /\ probed = NoProbe

\* the arguments of an operation: the rule or rules, n, ex_types, and the
\* other Zipper of merge (what an operation does not take is left empty)
Args(rule, rules, n, ex_types, other) ==
    [rule |-> rule, rules |-> rules, n |-> n, ex_types |-> ex_types, other |-> other]

NoArgs == Args([fn |-> "none"], <<>>, 0, {}, 0)

NoOperation ==
    [op |-> "none", arg |-> 0, args |-> NoArgs, ret |-> 0, raised |-> "none",
     before |-> <<>>]

\* no Zipper is under observation
\* no GenericInput is under observation
NoView == [data |-> <<>>, state |-> 0]
NoViewOp == [op |-> "none", step |-> 0, from |-> NoView, raised |-> "none",
             ret |-> NoView]
InputOff == view = NoView /\ vlast = NoViewOp

ZipOff ==
    /\ zdata = <<>> /\ zs = <<>> /\ heap = <<>> /\ zorigin = <<>>
    /\ zlast = NoOperation

Init ==
    /\ known_cities \in CityLists
    /\ required_order \in RequiredOrders
    /\ s \in Inputs
    /\ phase = "idle"
    /\ checked = TRUE
    /\ outcome = NoOutcome
    /\ trace = <<>>
    /\ again = NoAgain
    /\ BatchOff
    /\ ZipOff
    /\ InputOff

\* p(_s, checked) for the Parser p under test
Call ==
    /\ phase = "idle"
    /\ \E c \in BOOLEAN :
         \E r \in {ParserCall(known_cities, s, c)} :
            /\ checked' = c
            /\ outcome' \in InProcess(r.outcomes)
            /\ trace' = r.runs
    /\ phase' = "called"
    /\ UNCHANGED <<known_cities, required_order, s, again, batchVars, zipVars, inputVars>>

\* the same string parsed a second time with the same arguments: by the
\* Parser p, by a second Parser(known_cities=...) of the same list, or by a
\* blank Parser()
CallAgain ==
    /\ phase = "called"
    /\ \E by \in {"same", "new", "blank"} :
         \E o \in InProcess(ParserCall(IF by = "blank" THEN <<>> ELSE known_cities,
                                        s, checked).outcomes) :
            again' = [by |-> by, outcome |-> o]
    /\ phase' = "again"
    /\ UNCHANGED <<known_cities, required_order, s, checked, outcome, trace, batchVars,
                   zipVars, inputVars>>

Next == Call \/ CallAgain

Spec == Init /\ [][Next]_vars

----------------------------------------------------------------------------
(* Claims about single calls *)

\* the pipeline runs of the observed call
Runs == {trace[i] : i \in 1..Len(trace)}

\* the run of the Parser's own grammar (the last one made)
OwnRun == trace[Len(trace)]

\* a token the street-name step of a blank Parser never stops on
PlainToken(tok) ==
    ~regex_match(tok, st_suffix_R) /\ ~regex_match(tok, st_NESW_R)
    /\ ~regex_match(tok, unit_R)

\* C1: a checked call that returns has at least one non-empty value in each
\* of house_number, st_name, city and us_state
C1_RequiredFieldsPresent ==
    (phase = "called" /\ checked /\ outcome.kind = "ok") =>
        \A f \in {"house_number", "st_name", "city", "us_state"} :
            /\ Len(outcome.fields[f]) >= 1
            /\ \A i \in 1..Len(outcome.fields[f]) : Len(outcome.fields[f][i]) >= 1

\* a checked call returned, for a Parser with and without known cities
C1_Witness ==
    /\ phase = "called" /\ checked /\ outcome.kind = "ok"
    /\ outcome.fields["city"] = Str(<<"HOUSTON">>)
    /\ outcome.fields["st_name"] = Str(<<"DALLAS">>)
    /\ known_cities # <<>>

\* C2: a call that does not return raises ParseError or EndOfAddressError,
\* carrying the original string and a reason; nothing else escapes
C2_OnlyTypedErrors ==
    (phase = "called" /\ outcome.kind # "ok") =>
        /\ outcome.kind \in {"ParseError", "EndOfAddressError"}
        /\ outcome.orig = s
        /\ outcome.reason # <<>>

\* the tokens a Parser with no known cities makes of the string
C3_Tokens == tokenize(<<>>, s)

\* the input of C3: a house number, then one or more plain word tokens
C3_Input ==
    /\ Len(C3_Tokens) >= 2
    /\ regex_match(C3_Tokens[1], house_number_R)
    /\ \A i \in 2..Len(C3_Tokens) :
          regex_match(C3_Tokens[i], word_R) /\ PlainToken(C3_Tokens[i])

\* C3: with no known cities such an input never parses: the street name
\* takes every remaining token, the directional step after the suffix step
\* finds the input exhausted and the call raises EndOfAddressError for s
C3_GreedyStreetFails ==
    (phase = "called" /\ known_cities = <<>> /\ C3_Input) =>
        /\ outcome.kind = "EndOfAddressError"
        /\ outcome.orig = s
        /\ Len(trace) = 1
        /\ trace[1].raised = "EndOfInputError"
        /\ Len(trace[1].states) = 5
        /\ trace[1].states[3].state = 1
        /\ trace[1].data = C3_Tokens
        /\ trace[1].states[4].state = Len(C3_Tokens)
        /\ trace[1].states[5].state = Len(C3_Tokens)

\* "123 STRAIGHT AUSTIN TX" was parsed by a blank Parser
C3_Witness ==
    /\ phase = "called" /\ known_cities = <<>>
    /\ s = Str(<<"123", "STRAIGHT", "AUSTIN", "TX">>)
    /\ outcome.kind = "EndOfAddressError"

\* C4: when a blank Parser parses the string, a Parser with known cities
\* returns what the blank Parser returns and has not run its own grammar;
\* when the blank Parser fails, its error is dropped, the Parser runs the
\* grammar with its known cities after the blank one, and the outcome is
\* that grammar's result or error
C4_BlankFirst ==
    (phase = "again" /\ again.by = "blank" /\ filter_cities(known_cities) # <<>>) =>
        /\ trace[1].known = <<>>
        /\ again.outcome.kind = "ok" =>
              /\ outcome = again.outcome
              /\ Len(trace) = 1
        /\ again.outcome.kind # "ok" =>
              /\ Len(trace) = 2
              /\ trace[2].known = filter_cities(known_cities)
              /\ \E own \in {grammar_call(filter_cities(known_cities), s, checked)} :
                    /\ trace[2] = own.runs[1]
                    /\ outcome \in InProcess(own.outcomes)
        /\ ( /\ s = Str(<<"123", "DALLAS", "RD", "HOUSTON", "TX">>)
             /\ InSeq(Str(<<"DALLAS">>), known_cities) )
           => /\ outcome.kind = "ok"
              /\ outcome.fields["st_name"] = Str(<<"DALLAS">>)
              /\ outcome.fields["st_suffix"] = Str(<<"RD">>)
              /\ outcome.fields["city"] = Str(<<"HOUSTON">>)
              /\ outcome.fields["us_state"] = Str(<<"TX">>)

\* "123 DALLAS RD HOUSTON TX" was parsed with DALLAS and HOUSTON known and
\* by a blank Parser, which gave the same address, and the own grammar
\* alone would have given something else
C4_Witness ==
    /\ phase = "again" /\ again.by = "blank"
    /\ s = Str(<<"123", "DALLAS", "RD", "HOUSTON", "TX">>)
    /\ known_cities = <<Str(<<"HOUSTON">>), Str(<<"DALLAS">>)>>
    /\ outcome.kind = "ok"
    /\ again.outcome = outcome
    /\ outcome \notin grammar_call(known_cities, s, checked).outcomes

\* "123 STRAIGHT HOUSTON TX" with HOUSTON known: the blank Parser raised
\* EndOfAddressError and the Parser returned its own grammar's address
C4_WitnessBlankFails ==
    /\ phase = "again" /\ again.by = "blank"
    /\ s = Str(<<"123", "STRAIGHT", "HOUSTON", "TX">>)
    /\ known_cities = <<Str(<<"HOUSTON">>)>>
    /\ again.outcome.kind = "EndOfAddressError"
    /\ outcome.kind = "ok" /\ Len(trace) = 2

\* the known cities of the Parser under test
Known == filter_cities(known_cities)

\* is the token the token of a known city of the Parser under test
IsKnownCity(tok) == \E i \in 1..Len(Known) : tok = CityToken(Known[i])

\* index of the first known-city token after the first token (0: none)
FirstCityIndex(data) ==
    LET hits == {i \in 2..Len(data) : IsKnownCity(data[i])}
    IN IF hits = {} THEN 0 ELSE CHOOSE i \in hits : \A j \in hits : i <= j

\* C5: with known cities and no suffix, directional or unit among the
\* tokens, the street name ends right before the first known-city token; so
\* "<number> <word> <c> <state>" gives st_name = <word>, city = <c>, and
\* "<number> <c1> <c2> <state>" has no street name and fails when checked
C5_StreetEndsBeforeKnownCity ==
    (phase = "called" /\ Known # <<>>) =>
        /\ ( /\ Len(s) >= 2
             /\ regex_match(s[1], house_number_R)
             /\ \A i \in 1..Len(OwnRun.data) : PlainToken(OwnRun.data[i])
             /\ FirstCityIndex(OwnRun.data) # 0 )
           => /\ Len(trace) = 2
              /\ Len(OwnRun.states) >= 4
              /\ OwnRun.states[3].state = 1
              /\ OwnRun.states[4].state = FirstCityIndex(OwnRun.data) - 1
        /\ \A i \in 1..Len(Known) :
             ( /\ Len(s) = 3 + Len(Known[i])
               /\ regex_match(s[1], house_number_R)
               /\ PlainToken(s[2]) /\ ~IsKnownCity(s[2])
               /\ SubSeq(s, 3, Len(s) - 1) = Known[i]
               /\ regex_match(s[Len(s)], us_state_R) )
             => /\ outcome.kind = "ok"
                /\ outcome.fields["st_name"] = <<s[2]>>
                /\ outcome.fields["city"] = Str(CityToken(Known[i]))
        /\ \A i, j \in 1..Len(Known) :
             ( /\ Len(s) = 2 + Len(Known[i]) + Len(Known[j])
               /\ regex_match(s[1], house_number_R)
               /\ SubSeq(s, 2, 1 + Len(Known[i])) = Known[i]
               /\ SubSeq(s, 2 + Len(Known[i]), Len(s) - 1) = Known[j]
               /\ regex_match(s[Len(s)], us_state_R) )
             => IF checked
                THEN outcome = Failed("ParseError", s, <<"Could not identify", "st_name">>)
                ELSE outcome.kind = "ok" /\ outcome.fields["st_name"] = <<>>

\* C10: when the unit step is enabled and the two tokens at the cursor fail
\* the unit rule, the step leaves the engine state as it was
C10_FailedUnitConsumesNothing ==
    \A run \in Runs :
        ( /\ has_unit(run.data)
          /\ Len(run.states) >= 7
          /\ Len(Slice(run.data, run.states[6].state, 2)) = 2
          /\ chomp_unit(Slice(run.data, run.states[6].state, 2)).out = <<>> )
        => run.states[7] = run.states[6]

\* the k-th step of the pipeline of a run
StepOf(run, k) == call_funcs(run.known, run.data)[k]

\* the rule yields at least one result on the token
Matches(rule, tok) ==
    \E r \in {ApplyRule(rule, tok)} : r.raised = "none" /\ Len(r.out) > 0

\* the rule yields no result on the token, or raises an error of a kind
\* the operator ignores
Declines(rule, ex_types, tok) ==
    \E r \in {ApplyRule(rule, tok)} :
        \/ r.raised = "none" /\ Len(r.out) = 0
        \/ r.raised # "none" /\ Catches(ex_types, r.raised)

RECURSIVE OutsOf(_, _, _, _)
\* the results of the rule on the n tokens after position state, in order
OutsOf(rule, data, state, n) ==
    IF n = 0 THEN <<>>
    ELSE OutsOf(rule, data, state, n - 1) \o ApplyRule(rule, data[state + n]).out

\* the steps of the pipeline that are takewhile(rule): street name, street
\* suffix and city
TakewhileSteps == {3, 4, 7}

\* C11: takewhile(rule) consumes exactly the longest run of tokens from the
\* cursor on which the rule yields results: every consumed token matches,
\* the token it ends on (if any is left) yields nothing or raises an ignored
\* error and is the current token of the returned state, and the results
\* appended are the per-token results in token order
C11_TakewhileLongestPrefix ==
    \A run \in Runs : \A k \in TakewhileSteps :
        Len(run.states) >= k + 1 =>
            \E a \in {run.states[k]} : \E b \in {run.states[k + 1]} :
            \E step \in {StepOf(run, k)} :
                /\ b.state >= a.state
                /\ b.state <= Len(run.data)
                /\ \A j \in (a.state + 1)..b.state : Matches(step.rule, run.data[j])
                /\ b.state < Len(run.data) =>
                      Declines(step.rule, step.ex_types, run.data[b.state + 1])
                /\ b.results =
                      a.results \o OutsOf(step.rule, run.data, a.state, b.state - a.state)

\* "123 OLD MAIN ST NE DALLAS TX": the street-name step took two tokens up
\* to a suffix, the suffix step took one token and ended on a token its
\* rule raises on, and the city step took one token up to a stop token
C11_Witness ==
    /\ phase = "called"
    /\ s = Str(<<"123", "OLD", "MAIN", "ST", "NE", "DALLAS", "TX">>)
    /\ known_cities = <<>>
    /\ outcome.kind = "ok"
    /\ outcome.fields["st_name"] = Str(<<"OLD", "MAIN">>)
    /\ OwnRun.states[3].state = 1 /\ OwnRun.states[4].state = 3
    /\ OwnRun.states[5].state = 4
    /\ ApplyRule(_ST_SUFFIX, OwnRun.data[5]).raised = "ParseError"
    /\ OwnRun.states[7].state = 5 /\ OwnRun.states[8].state = 6
    /\ stops_on(StepOf(OwnRun, 7).rule.stops_on, OwnRun.data[7])

\* grammar atoms with a stop predicate: the street name and the city of a
\* Parser with these known cities, and required and optional atoms whose
\* pattern does not match every token their stop predicate holds on
StopAtoms(known) ==
    { st_name_rule(known), city_rule(known) }
    \cup { AddressComponent("zip_code", zip_code_R, opt, <<us_state_R, st_suffix_R>>)
            : opt \in BOOLEAN }

\* a street suffix, directional, unit type or known city of the run
StreetStop(run, tok) ==
    \/ regex_match(tok, st_suffix_R) \/ regex_match(tok, st_NESW_R)
    \/ regex_match(tok, unit_R)
    \/ \E i \in 1..Len(run.known) : tok = CityToken(run.known[i])

\* C17: on a token its stop predicate holds on, the rule of a grammar atom
\* yields the empty result: no step when the pattern matches too, no
\* ParseError when the atom is required.  So the takewhile over the street
\* name consumes no suffix, directional, unit type or known city: it ends
\* right before the first of them, which is the current token it leaves
C17_StopPredicateWins ==
    \A run \in Runs :
        /\ \A c \in StopAtoms(run.known) : \A j \in 1..Len(run.data) :
              stops_on(c.stops_on, run.data[j]) =>
                  ApplyRule(c, run.data[j]) = Ret(<<>>)
        /\ Len(run.states) >= 4 =>
              \E a \in {run.states[3].state} : \E b \in {run.states[4].state} :
                  /\ \A j \in (a + 1)..b : ~StreetStop(run, run.data[j])
                  /\ \A j \in (a + 1)..Len(run.data) :
                        StreetStop(run, run.data[j]) => b < j
                  /\ (\E j \in (a + 1)..Len(run.data) : StreetStop(run, run.data[j])) =>
                        StreetStop(run, run.data[b + 1])

----------------------------------------------------------------------------
(* smart_batch *)

\* the strings the batches are drawn from
Pool ==
    { Str(<<"123", "MAIN", "HOUSTON", "TX", "78701">>),
      Str(<<"5", "DALLAS", "RD", "HOUSTON", "TX", "78701">>),
      Str(<<"123", "DALLAS", "HOUSTON", "TX">>),
      Str(<<"123", "MAIN", "ST", "APT">>),
      Str(<<"123", "OAK", "MAIN", "#", "TX">>),
      Str(<<"RD", "TX">>) }

Batches == UNION {[1..n -> Pool] : n \in 0..MaxBatch}

\* the known-city lists of the Parsers given to smart_batch
BatchCityLists == { <<>>, <<Str(<<"DALLAS">>)>>, <<Str(<<"MAIN", "#">>)>> }

\* no single call is under observation
CallOff ==
    /\ s = <<>> /\ phase = "off" /\ checked = TRUE /\ outcome = NoOutcome
    /\ trace = <<>> /\ again = NoAgain

InitBatch ==
    /\ known_cities \in BatchCityLists
    /\ required_order \in RequiredOrders
    /\ adds \in Batches
    /\ pass = "pass1"
    /\ idx = 1
    /\ errs = <<>>
    /\ cities = {}
    /\ p2_cities = <<>>
    /\ yielded = <<>>
    /\ reported = <<>>
    /\ probed = NoProbe
    /\ CallOff
    /\ ZipOff
    /\ InputOff

\* one round of the first for-loop: a = p(add), then yield or defer
Pass1Step ==
    /\ pass = "pass1"
    /\ idx <= Len(adds)
    /\ \E a \in InProcess(ParserCall(known_cities, adds[idx], TRUE).outcomes) :
         IF a.kind = "ok"
         THEN /\ cities' = cities \cup {a.fields["city"]}
              /\ yielded' = Append(yielded, [item |-> idx, pass |-> 1, address |-> a])
              /\ idx' = idx + 1
              /\ UNCHANGED <<pass, errs>>
         ELSE IF Catches({"EndOfInputError", "ParseError"}, a.kind)
         THEN /\ errs' = Append(errs, idx)
              /\ idx' = idx + 1
              /\ UNCHANGED <<pass, cities, yielded>>
         ELSE /\ pass' = "raised"
              /\ UNCHANGED <<idx, errs, cities, yielded>>
    /\ UNCHANGED <<known_cities, required_order, callVars, inputVars, zipVars, probed, adds, p2_cities, reported>>

\* the step between the passes as it would be if it did not wait for the
\* end of the first for-loop
BuildParser_early ==
    /\ pass = "pass1"
    /\ \E o \in Orders(cities) : p2_cities' = known_cities \o o
    /\ pass' = "pass2"
    /\ idx' = 1
    /\ UNCHANGED <<known_cities, required_order, callVars, inputVars, zipVars, probed, adds, errs, cities, yielded,
                   reported>>

\* the step between the passes as it would be if the cities found were
\* added to the supplied Parser instead of building a new one
BuildParser_in_place ==
    /\ pass = "pass1"
    /\ idx > Len(adds)
    /\ \E o \in Orders(cities) :
          /\ p2_cities' = known_cities \o o
          /\ known_cities' = known_cities \o o
    /\ pass' = "pass2"
    /\ idx' = 1
    /\ UNCHANGED <<required_order, callVars, inputVars, zipVars, probed, adds, errs, cities,
                   yielded, reported>>

\* p = Parser(known_cities=p.known_cities + list(cities))
BuildParser ==
    /\ pass = "pass1"
    /\ idx > Len(adds)
    /\ \E o \in Orders(cities) : p2_cities' = known_cities \o o
    /\ pass' = "pass2"
    /\ idx' = 1
    /\ UNCHANGED <<known_cities, required_order, callVars, inputVars, zipVars, probed, adds, errs, cities, yielded,
                   reported>>

\* one round of the second for-loop: a = p(add), then yield or report_error
Pass2Step ==
    /\ pass = "pass2"
    /\ idx <= Len(errs)
    /\ \E a \in InProcess(ParserCall(p2_cities, adds[errs[idx]], TRUE).outcomes) :
         IF a.kind = "ok"
         THEN /\ yielded' = Append(yielded, [item |-> errs[idx], pass |-> 2, address |-> a])
              /\ idx' = idx + 1
              /\ UNCHANGED <<pass, reported>>
         ELSE IF Catches({"ParseError"}, a.kind)
         THEN /\ reported' = Append(reported, [item |-> errs[idx], error |-> a])
              /\ idx' = idx + 1
              /\ UNCHANGED <<pass, yielded>>
         ELSE /\ pass' = "raised"
              /\ UNCHANGED <<idx, yielded, reported>>
    /\ UNCHANGED <<known_cities, required_order, callVars, inputVars, zipVars, probed, adds, errs, cities, p2_cities>>

\* the second for-loop is over: the iterator is exhausted
Finish ==
    /\ pass = "pass2"
    /\ idx > Len(errs)
    /\ pass' = "done"
    /\ UNCHANGED <<known_cities, required_order, callVars, inputVars, zipVars, probed, adds, idx, errs, cities,
                   p2_cities, yielded, reported>>

\* the caller parses a string of the batch with the supplied Parser before
\* asking the iterator for its first element
ProbeBefore ==
    /\ pass = "pass1" /\ idx = 1 /\ errs = <<>> /\ yielded = <<>>
    /\ probed = NoProbe
    /\ \E i \in 1..Len(adds) :
         \E o \in InProcess(ParserCall(known_cities, adds[i], TRUE).outcomes) :
            probed' = [item |-> i, before |-> o, after |-> NoOutcome]
    /\ UNCHANGED <<known_cities, required_order, callVars, inputVars, zipVars, adds, pass,
                   idx, errs, cities, p2_cities, yielded, reported>>

\* the caller parses that string again with the supplied Parser once the
\* iterator is exhausted or has raised
ProbeAfter ==
    /\ pass \in {"done", "raised"}
    /\ probed.item # 0 /\ probed.after = NoOutcome
    /\ \E o \in InProcess(ParserCall(known_cities, adds[probed.item], TRUE).outcomes) :
         probed' = [probed EXCEPT !.after = o]
    /\ UNCHANGED <<known_cities, required_order, callVars, inputVars, zipVars, adds, pass,
                   idx, errs, cities, p2_cities, yielded, reported>>

NextBatch ==
    Pass1Step \/ BuildParser \/ Pass2Step \/ Finish \/ ProbeBefore \/ ProbeAfter

SpecBatch == InitBatch /\ [][NextBatch]_vars

----------------------------------------------------------------------------
(* Claims about smart_batch *)

\* the iterator has been consumed to its end: it is exhausted, or the
\* exception that ended it has reached the consumer
Consumed == pass \in {"done", "raised"}

\* how many entries of a history are about the batch item i
Count(history, i) == Cardinality({k \in 1..Len(history) : history[k].item = i})

\* C6: once the iterator is consumed to the end, every item of the batch was
\* either yielded exactly once or reported exactly once, never both, never
\* neither
C6_EveryItemAccountedOnce ==
    Consumed =>
        \A i \in 1..Len(adds) : Count(yielded, i) + Count(reported, i) = 1

\* the items the supplied Parser alone parses
AloneSuccesses ==
    {i \in 1..Len(adds) :
        \E o \in ParserCall(known_cities, adds[i], TRUE).outcomes : o.kind = "ok"}

\* C8: once the iterator is consumed to the end, it has yielded at least as
\* many results as there are items the supplied Parser alone parses, and
\* each of those items was yielded in pass 1
C8_AtLeastPassOneSuccesses ==
    Consumed =>
        /\ Len(yielded) >= Cardinality(AloneSuccesses)
        /\ \A i \in AloneSuccesses :
               \E k \in 1..Len(yielded) : yielded[k].item = i /\ yielded[k].pass = 1

\* str is <number> <street> <city> <state> [<zip>] with the state at index e,
\* the street one or more plain words, and nothing between street and city
Unseparated(str, city, e) ==
    /\ Len(city) >= 1
    /\ e \in {Len(str) - 1, Len(str)}
    /\ e - Len(city) - 1 >= 2
    /\ regex_match(str[1], house_number_R)
    /\ regex_match(str[e], us_state_R)
    /\ e < Len(str) => regex_match(str[Len(str)], zip_code_R)
    /\ SubSeq(str, e - Len(city), e - 1) = city
    /\ \A j \in 2..(e - Len(city) - 1) : PlainToken(str[j])

\* C7: an item deferred in pass 1 whose street name and city are not
\* separated is yielded in pass 2, its street name ending before the city,
\* when another item of the batch was yielded in pass 1 with that city,
\* wherever that other item stands in the batch
C7_RepairedInPassTwo ==
    Consumed =>
        \A i \in 1..Len(adds) : \A k \in 1..Len(yielded) : \A e \in 1..Len(adds[i]) :
            ( /\ InSeq(i, errs)
              /\ yielded[k].pass = 1
              /\ yielded[k].item # i
              /\ Unseparated(adds[i], yielded[k].address.fields["city"], e) )
            => \E y \in 1..Len(yielded) :
                  /\ yielded[y].item = i
                  /\ yielded[y].pass = 2
                  /\ yielded[y].address.fields["city"] = yielded[k].address.fields["city"]
                  /\ yielded[y].address.fields["st_name"] =
                        SubSeq(adds[i], 2,
                               e - Len(yielded[k].address.fields["city"]) - 1)

\* C18: no step of a run of smart_batch changes the known cities of the
\* supplied Parser; pass 2 runs with another Parser, whose known cities are
\* the supplied Parser's followed by the cities found in pass 1; and a
\* string of the batch parsed with the supplied Parser once the run is over
\* gives what it gave before the run began
C18_SuppliedParserUnchanged ==
    /\ [][known_cities' = known_cities]_vars
    /\ [](pass \in {"pass2", "done"} =>
            \E o \in Orders(cities) : p2_cities = known_cities \o o)
    /\ [](probed.after # NoOutcome => probed.after = probed.before)

\* a batch given a Parser that knows DALLAS is over: pass 2 ran with a
\* Parser that knows HOUSTON too and yielded an item the supplied Parser
\* failed on before the run and fails on after it
C18_Witness ==
    /\ pass = "done"
    /\ known_cities = <<Str(<<"DALLAS">>)>>
    /\ p2_cities = <<Str(<<"DALLAS">>), Str(<<"HOUSTON">>)>>
    /\ probed.item # 0 /\ probed.after # NoOutcome
    /\ probed.before.kind = "EndOfAddressError"
    /\ probed.after = probed.before
    /\ \E k \in 1..Len(yielded) :
          yielded[k].pass = 2 /\ yielded[k].item = probed.item

\* the items yielded in the given pass, and the items report_error got
YieldedItems(n) == {yielded[k].item : k \in {j \in 1..Len(yielded) : yielded[j].pass = n}}
ReportedItems == {reported[k].item : k \in 1..Len(reported)}

\* pass 2 has begun: the second Parser is built, or a pass-2 result or a
\* report_error call exists
PassTwoBegun ==
    pass \in {"pass2", "done"} \/ YieldedItems(2) # {} \/ reported # <<>>

\* C20: smart_batch streams in two phases.  Every input read so far in
\* pass 1 is already yielded or deferred, each before the next is read, and
\* the pass-1 results are in input order; pass 2 begins only when every
\* input was attempted once; every pass-2 result and report_error call
\* comes after all pass-1 results, and pass 2 goes through the deferred
\* inputs in the order they were deferred
C20_StreamingTwoPhases ==
    /\ \A k, l \in 1..Len(yielded) :
          k < l => /\ yielded[k].pass <= yielded[l].pass
                   /\ yielded[k].pass = yielded[l].pass =>
                          yielded[k].item < yielded[l].item
    /\ \A k, l \in 1..Len(reported) : k < l => reported[k].item < reported[l].item
    /\ \A k, l \in 1..Len(errs) : k < l => errs[k] < errs[l]
    /\ YieldedItems(1) \cap {errs[k] : k \in 1..Len(errs)} = {}
    /\ pass = "pass1" =>
          /\ YieldedItems(1) \cup {errs[k] : k \in 1..Len(errs)} = 1..(idx - 1)
          /\ ~PassTwoBegun
    /\ ~PassTwoBegun =>
          \E m \in 0..Len(adds) :
              YieldedItems(1) \cup {errs[k] : k \in 1..Len(errs)} = 1..m
    /\ PassTwoBegun =>
          /\ YieldedItems(1) \cup {errs[k] : k \in 1..Len(errs)} = 1..Len(adds)
          /\ \E m \in 0..Len(errs) :
                /\ YieldedItems(2) \cup ReportedItems = {errs[k] : k \in 1..m}
                /\ pass = "pass2" => m = idx - 1
                /\ pass = "done" => m = Len(errs)

\* a batch of three is over: the first and third inputs were yielded in
\* pass 1, the second was deferred and yielded in pass 2, after them
C20_Witness ==
    /\ pass = "done" /\ Len(adds) = 3
    /\ errs = <<2>>
    /\ Len(yielded) = 3
    /\ yielded[1].item = 1 /\ yielded[1].pass = 1
    /\ yielded[2].item = 3 /\ yielded[2].pass = 1
    /\ yielded[3].item = 2 /\ yielded[3].pass = 2

\* two inputs were deferred; pass 2 yielded the first and reported the
\* second
C20_WitnessReported ==
    /\ pass = "done" /\ errs = <<1, 3>>
    /\ YieldedItems(1) = {2} /\ YieldedItems(2) = {1} /\ ReportedItems = {3}

\* the elements of a sequence
Range(sq) == {sq[k] : k \in 1..Len(sq)}

\* the cities of the pass-1 results
PassOneCities ==
    {yielded[k].address.fields["city"] :
        k \in {j \in 1..Len(yielded) : yielded[j].pass = 1}}

\* how many results of the given pass are about the batch item i
CountPass(n, i) ==
    Cardinality({k \in 1..Len(yielded) : yielded[k].item = i /\ yielded[k].pass = n})

\* C21: the Parser of pass 2 knows exactly the supplied Parser's cities and
\* the city of every pass-1 result; pass 2 attempts exactly the inputs
\* deferred in pass 1, each once; no input is parsed more than twice and no
\* pass-1 success is parsed again
C21_PassTwoWork ==
    /\ PassTwoBegun =>
          /\ Range(p2_cities) = Range(known_cities) \cup PassOneCities
          /\ Len(p2_cities) = Len(known_cities) + Cardinality(PassOneCities)
    /\ \A i \in 1..Len(adds) :
          /\ CountPass(1, i) <= 1
          /\ CountPass(2, i) + Count(reported, i) <= 1
          /\ CountPass(2, i) + Count(reported, i) = 1 => i \in Range(errs)
          /\ CountPass(1, i) = 1 => CountPass(2, i) + Count(reported, i) = 0
    /\ Consumed => YieldedItems(2) \cup ReportedItems = Range(errs)

----------------------------------------------------------------------------
(* Zipper objects.  A Zipper object is [state, results]: the position of   *)
(* its leftover over zdata and a reference into heap, where its results    *)
(* live: a list, or the generator r() that merge made, which yields from   *)
(* its two sources once and is exhausted afterwards.                       *)

\* a results object that is a list
ListResults(items) ==
    [kind |-> "list", items |-> items, left |-> 0, right |-> 0, done |-> FALSE]

\* the generator r() of self.merge(other), not started: left and right are
\* the results objects of self and of other
GenResults(left, right) ==
    [kind |-> "gen", items |-> <<>>, left |-> left, right |-> right, done |-> FALSE]

RECURSIVE ReadResults(_, _)
\* list(results) of the results object at ref in the heap h: the items it
\* yields, and the heap afterwards (every generator it ran is exhausted)
ReadResults(h, ref) ==
    IF h[ref].kind = "list" THEN [items |-> h[ref].items, h |-> h]
    ELSE IF h[ref].done THEN [items |-> <<>>, h |-> h]
    ELSE The({
            The({ [items |-> l.items \o r.items,
                   h |-> [r.h EXCEPT ![ref].done = TRUE]]
                  : r \in {ReadResults(l.h, h[ref].right)} })
            : l \in {ReadResults(h, h[ref].left)} })

\* what reading the results of the Zipper object i would yield now
Contents(i) == ReadResults(heap, zs[i].results).items

\* the position and contents of the Zipper objects in a set
Snapshot(set) == [i \in set |-> [state |-> zs[i].state, results |-> Contents(i)]]

\* the token lists: integers, as in __zipper__.test
ZipInputs == UNION {[1..n -> {1, 2}] : n \in 0..MaxTokens}

\* the rules of __zipper__.test
ZipRules == {[fn |-> "fan_odd"], [fn |-> "fan_even"]}
ZipRuleLists ==
    { <<>>, <<[fn |-> "fan_even"], [fn |-> "fan_odd"]>>, <<[fn |-> "fan_odd"]>> }
ZipExTypes == {DefaultExTypes, {"EndOfInputError"}}

\* Zipper(GenericInput(zdata)): position 0, results the list []
InitZipper ==
    /\ zdata \in ZipInputs
    /\ heap = <<ListResults(<<>>)>>
    /\ zs = <<[state |-> 0, results |-> 1]>>
    /\ zorigin = <<[op |-> "Zipper", from |-> {}, held |-> <<>>]>>
    /\ zlast = NoOperation
    /\ known_cities = <<>>
    /\ required_order = <<>>
    /\ CallOff
    /\ BatchOff
    /\ InputOff

\* the Zipper object i as the pure operators take it; its results are left
\* out, since the operators hand them to merge without reading them
Pure(i) == Zipper(zs[i].state, <<>>)

\* what an operator applied to the Zipper object i did: r is what the
\* operator computed.  It raised, returned self, or returned
\* self.merge(other): a new Zipper whose results are a new generator over
\* self.results and the list other.results
Applied(op, i, args, r) ==
    IF r.raised # "none"
    THEN /\ zlast' = [op |-> op, arg |-> i, args |-> args, ret |-> 0,
                      raised |-> r.raised, before |-> <<>>]
         /\ UNCHANGED <<zs, heap, zorigin>>
    ELSE IF ~r.merged
    THEN /\ zlast' = [op |-> op, arg |-> i, args |-> args, ret |-> i,
                      raised |-> "none", before |-> <<>>]
         /\ UNCHANGED <<zs, heap, zorigin>>
    ELSE /\ Len(zs) < MaxObjs
         /\ heap' = heap \o <<ListResults(r.other.results),
                               GenResults(zs[i].results, Len(heap) + 1)>>
         /\ zs' = Append(zs, [state |-> r.z.state, results |-> Len(heap) + 2])
         /\ zorigin' = Append(zorigin, [op |-> op, from |-> {i},
                                        held |-> Snapshot({i})])
         /\ zlast' = [op |-> op, arg |-> i, args |-> args, ret |-> Len(zs) + 1,
                      raised |-> "none", before |-> <<>>]

\* z.takewhile(rule)
ZTakewhile ==
    /\ \E i \in 1..Len(zs) : \E rule \in ZipRules :
         \E r \in {takewhile(Pure(i), zdata, rule, FALSE, DefaultExTypes)} :
            Applied("takewhile", i, Args(rule, <<>>, 0, DefaultExTypes, 0), r)
    /\ UNCHANGED <<known_cities, required_order, callVars, inputVars, batchVars, zdata>>

\* z.consume_with(rule)
ZConsumeWith ==
    /\ \E i \in 1..Len(zs) : \E rule \in ZipRules : \E ex \in {DefaultExTypes} :
         \E r \in {consume_with(Pure(i), zdata, rule, ex)} :
            Applied("consume_with", i, Args(rule, <<>>, 0, ex, 0), r)
    /\ UNCHANGED <<known_cities, required_order, callVars, inputVars, batchVars, zdata>>

\* the chomp_n calls made on a Zipper object: _id on blocks of no and of
\* two tokens, fan_odd chained over a block of one token, which yields
\* nothing on an even token, and __chomp_unit__ on blocks too short for it,
\* where its assertion fails, with and without AssertionError among the
\* ex_types
ZipChomps ==
    { Args([fn |-> "_id"], <<>>, n, DefaultExTypes, 0) : n \in {0, 2} }
    \cup { Args([fn |-> "chain_fan_odd"], <<>>, 1, DefaultExTypes, 0) }
    \cup { Args([fn |-> "chomp_unit"], <<>>, 1, ex, 0) :
                ex \in {DefaultExTypes, {"AssertionError"}} }

\* z.chomp_n(n, list_func, ex_types)
ZChompN ==
    /\ \E i \in 1..Len(zs) : \E a \in ZipChomps :
         \E r \in {chomp_n(Pure(i), zdata, a.n, a.rule, a.ex_types)} :
            Applied("chomp_n", i, a, r)
    /\ UNCHANGED <<known_cities, required_order, callVars, inputVars, batchVars, zdata>>

\* z.or_(rules, ex_types)
ZOr ==
    /\ \E i \in 1..Len(zs) : \E rules \in ZipRuleLists : \E ex \in ZipExTypes :
         \E r \in {or_(Pure(i), zdata, rules, ex)} :
            Applied("or_", i, Args([fn |-> "none"], rules, 0, ex, 0), r)
    /\ UNCHANGED <<known_cities, required_order, callVars, inputVars, batchVars, zdata>>

\* z.merge(other): other's leftover, and a new generator over both results
ZMerge ==
    /\ Len(zs) < MaxObjs
    /\ \E i \in 1..Len(zs) : \E j \in 1..Len(zs) :
         /\ heap' = Append(heap, GenResults(zs[i].results, zs[j].results))
         /\ zs' = Append(zs, [state |-> zs[j].state, results |-> Len(heap) + 1])
         /\ zorigin' = Append(zorigin, [op |-> "merge", from |-> {i, j},
                                        held |-> Snapshot({i, j})])
         /\ zlast' = [op |-> "merge", arg |-> i,
                      args |-> Args([fn |-> "none"], <<>>, 0, {}, j),
                      ret |-> Len(zs) + 1, raised |-> "none", before |-> <<>>]
    /\ UNCHANGED <<known_cities, required_order, callVars, inputVars, batchVars, zdata>>

\* z.realize(): a new Zipper over list(self.results)
ZRealize ==
    /\ Len(zs) < MaxObjs
    /\ \E i \in 1..Len(zs) : \E rd \in {ReadResults(heap, zs[i].results)} :
         /\ heap' = Append(rd.h, ListResults(rd.items))
         /\ zs' = Append(zs, [state |-> zs[i].state, results |-> Len(heap) + 1])
         /\ zorigin' = Append(zorigin, [op |-> "realize", from |-> {},
                                        held |-> <<>>])
         /\ zlast' = [op |-> "realize", arg |-> i, args |-> NoArgs,
                      ret |-> Len(zs) + 1, raised |-> "none",
                      before |-> Snapshot(1..Len(zs))]
    /\ UNCHANGED <<known_cities, required_order, callVars, inputVars, batchVars, zdata>>

\* the arguments of test and test_leftover: the list the caller expects
TestArgs(expected) ==
    [rule |-> [fn |-> "none"], rules |-> <<>>, n |-> 0, ex_types |-> {},
     other |-> 0, expected |-> expected]

\* the lists handed to test and to test_leftover
TestResults == {<<>>, <<1, 2, 3>>}
TestLeftovers == {<<>>, <<2>>}

\* z.test(name, result): list(self.realize().results) is compared with
\* result, and Exception is raised when they differ; the Zipper that realize
\* makes is dropped
ZTest ==
    /\ \E i \in 1..Len(zs) : \E result \in TestResults :
         \E rd \in {ReadResults(heap, zs[i].results)} :
            /\ heap' = rd.h
            /\ zlast' = [op |-> "test", arg |-> i, args |-> TestArgs(result),
                         ret |-> 0,
                         raised |-> IF result = rd.items THEN "none" ELSE "Exception",
                         before |-> <<>>]
    /\ UNCHANGED <<known_cities, required_order, callVars, inputVars, batchVars, zdata, zs, zorigin>>

\* z.test_leftover(name, leftover): self.realize().leftover.as_str() is
\* compared with the joined leftover, and Exception is raised when they
\* differ; realize reads the results
ZTestLeftover ==
    /\ \E i \in 1..Len(zs) : \E leftover \in TestLeftovers :
         \E rd \in {ReadResults(heap, zs[i].results)} :
            /\ heap' = rd.h
            /\ zlast' = [op |-> "test_leftover", arg |-> i,
                         args |-> TestArgs(leftover), ret |-> 0,
                         raised |-> IF leftover = as_str(GenericInput(zdata, zs[i].state))
                                    THEN "none" ELSE "Exception",
                         before |-> <<>>]
    /\ UNCHANGED <<known_cities, required_order, callVars, inputVars, batchVars, zdata, zs, zorigin>>

\* z.successful(): len(list(self.realize().results)) > 0; the Zipper that
\* realize makes is dropped
ZSuccessful ==
    /\ \E i \in 1..Len(zs) : \E rd \in {ReadResults(heap, zs[i].results)} :
         /\ heap' = rd.h
         /\ zlast' = [op |-> "successful", arg |-> i, args |-> NoArgs,
                      ret |-> Len(rd.items) > 0, raised |-> "none",
                      before |-> Snapshot(1..Len(zs))]
    /\ UNCHANGED <<known_cities, required_order, callVars, inputVars, batchVars, zdata, zs, zorigin>>

NextZipper ==
    \/ ZTakewhile \/ ZConsumeWith \/ ZChompN \/ ZOr \/ ZMerge \/ ZRealize
    \/ ZSuccessful \/ ZTest \/ ZTestLeftover

SpecZipper == InitZipper /\ [][NextZipper]_vars

----------------------------------------------------------------------------
(* GenericInput: a view of a token list, and the methods called on it *)

InitInput ==
    /\ view \in {GenericInput(d, 0) : d \in ZipInputs}
    /\ vlast = NoViewOp
    /\ known_cities = <<>>
    /\ required_order = <<>>
    /\ CallOff
    /\ BatchOff
    /\ ZipOff

\* what a method called on the view did: it raised, or returned a view,
\* which is followed from then on
Moved(op, step, r) ==
    /\ vlast' = [op |-> op, step |-> step, from |-> view, raised |-> r.raised,
                 ret |-> IF r.raised = "none" THEN r.ret ELSE NoView]
    /\ view' = IF r.raised = "none" THEN r.ret ELSE view

\* g.advance(step)
GAdvance ==
    /\ \E step \in 0..2 : Moved("advance", step, advance(view, step))
    /\ UNCHANGED <<known_cities, required_order, callVars, batchVars, zipVars>>

\* g.rest()
GRest ==
    /\ view.state < Len(view.data) + MaxPast
    /\ Moved("rest", 1, rest(view))
    /\ UNCHANGED <<known_cities, required_order, callVars, batchVars, zipVars>>

\* g.item(): the view stays where it is
GItem ==
    /\ \E r \in {item(view)} :
          vlast' = [op |-> "item", step |-> 0, from |-> view, raised |-> r.raised,
                    ret |-> r.ret]
    /\ UNCHANGED <<known_cities, required_order, callVars, batchVars, zipVars, view>>

\* g.empty()
GEmpty ==
    /\ vlast' = [op |-> "empty", step |-> 0, from |-> view, raised |-> "none",
                 ret |-> empty(view.data, view.state)]
    /\ UNCHANGED <<known_cities, required_order, callVars, batchVars, zipVars, view>>

NextInput == GAdvance \/ GRest \/ GItem \/ GEmpty

SpecInput == InitInput /\ [][NextInput]_vars

\* C23: rest() has the outcome of advance(1): on a view with a current
\* token it returns the view one token on over the same tokens, and on an
\* exhausted view it raises EndOfInputError and returns no view
C23_RestIsAdvanceOne ==
    vlast.op = "rest" =>
        /\ \E a \in {advance(vlast.from, 1)} :
              /\ vlast.raised = a.raised
              /\ a.raised = "none" => vlast.ret = a.ret
        /\ vlast.from.state < Len(vlast.from.data) =>
              /\ vlast.raised = "none"
              /\ vlast.ret = GenericInput(vlast.from.data, vlast.from.state + 1)
        /\ vlast.from.state = Len(vlast.from.data) =>
              vlast.raised = "EndOfInputError"

----------------------------------------------------------------------------
(* Claims about Zipper objects *)

\* the results of the Zipper object d were just read
JustRead(d) == zlast.op \in {"realize", "successful"} /\ zlast.arg = d

\* C9: when an operator was applied to a state z, giving d, and the results
\* of d are then read, z still has the position it had and reading z still
\* yields the steps it held when the operator was applied
C9_OriginalUnchanged ==
    \A d \in 1..Len(zs) : \A z \in zorigin[d].from :
        (JustRead(d) /\ zlast.before[z] = zorigin[d].held[z])
        => /\ zs[z].state = zorigin[d].held[z].state
           /\ Contents(z) = zorigin[d].held[z].results

\* the operator op was just applied to the Zipper object i and returned
Returned(op, i) == zlast.op = op /\ zlast.arg = i /\ zlast.raised = "none"

\* the steps the Zipper object i held when the last operator was applied to
\* it (an operator reads no results, so they are what it holds now)
HeldBy(i) ==
    IF zlast.ret = i THEN Contents(i) ELSE zorigin[zlast.ret].held[i].results

\* C12: consume_with(rule) on a state with a current token advances by
\* exactly one token and appends rule(token) when that is not empty, also
\* when the next token matches too, and otherwise returns a state with the
\* same position and results; and on every state its outcome is that of
\* takewhile(rule, single=True)
C12_ConsumeWithOneToken ==
    \A i \in 1..Len(zs) :
        zlast.op = "consume_with" /\ zlast.arg = i =>
            /\ \E tw \in {takewhile(Pure(i), zdata, zlast.args.rule, TRUE,
                                     zlast.args.ex_types)} :
                  /\ tw.raised = zlast.raised
                  /\ tw.raised = "none" =>
                        /\ zs[zlast.ret].state = tw.z.state
                        /\ Contents(zlast.ret) = HeldBy(i) \o tw.z.results
            /\ ~empty(zdata, zs[i].state) =>
                  \E out \in {ApplyRule(zlast.args.rule, zdata[zs[i].state + 1]).out} :
                      /\ zlast.raised = "none"
                      /\ zs[zlast.ret].state =
                            IF Len(out) > 0 THEN zs[i].state + 1 ELSE zs[i].state
                      /\ Contents(zlast.ret) = HeldBy(i) \o out

\* consume_with(fan_odd) took the first of two odd tokens from a state that
\* already held results
C12_Witness ==
    /\ zdata = <<1, 1, 1>>
    /\ Len(zs) = 3
    /\ Returned("consume_with", 2)
    /\ zlast.args.rule = [fn |-> "fan_odd"]
    /\ zs[2].state = 1 /\ zs[3].state = 2
    /\ Contents(3) = <<1, 2, 3, 1, 2, 3>>

\* the rules of a list that yield a result on the token
Winners(rules, tok) == {k \in 1..Len(rules) : Matches(rules[k], tok)}

\* C13: or_(rules) on any state, exhausted or not, with any rule list, empty
\* or not, raises nothing; when some rule yields a result on the current
\* token, the first such rule's results are appended and exactly one token
\* is consumed; otherwise the state it was applied to is returned
C13_FirstMatchOrUnchanged ==
    \A i \in 1..Len(zs) :
        zlast.op = "or_" /\ zlast.arg = i =>
            /\ zlast.raised = "none"
            /\ \E w \in {IF empty(zdata, zs[i].state) THEN {}
                          ELSE Winners(zlast.args.rules, zdata[zs[i].state + 1])} :
                  IF w = {}
                  THEN zlast.ret = i
                  ELSE \E k \in w :
                          /\ \A j \in w : k <= j
                          /\ zlast.ret # i
                          /\ zs[zlast.ret].state = zs[i].state + 1
                          /\ Contents(zlast.ret) =
                                HeldBy(i) \o ApplyRule(zlast.args.rules[k],
                                                       zdata[zs[i].state + 1]).out

\* C14: chomp_n(n, rule) on a state with at least n remaining tokens hands
\* the next n tokens to rule as one block; when rule raises an error of an
\* ignorable kind the state it was applied to is returned, same position
\* and results; when rule returns, the position advances by exactly n and
\* what rule yielded is appended, an empty yield included
C14_ChompAdvancesByN ==
    \A i \in 1..Len(zs) :
        (/\ zlast.op = "chomp_n" /\ zlast.arg = i
         /\ zs[i].state + zlast.args.n <= Len(zdata)) =>
            \E r \in {ApplyListRule(zlast.args.rule,
                         SubSeq(zdata, zs[i].state + 1,
                                zs[i].state + zlast.args.n))} :
                /\ (r.raised # "none" /\ r.raised \in zlast.args.ex_types) =>
                        /\ zlast.raised = "none"
                        /\ zlast.ret = i
                /\ r.raised = "none" =>
                        /\ zlast.raised = "none"
                        /\ zs[zlast.ret].state = zs[i].state + zlast.args.n
                        /\ Contents(zlast.ret) = HeldBy(i) \o r.out

\* the rule chained over a block of one even token yielded nothing and the
\* state returned is one token on with no results; on that state a rule
\* raising an ignorable error returned that same state
C14_Witness ==
    /\ zdata = <<2, 2, 1>> /\ Len(zs) = 2
    /\ zorigin[2].op = "chomp_n" /\ zs[2].state = 1 /\ Contents(2) = <<>>
    /\ chain_fan_odd(SubSeq(zdata, 1, 1)) = <<>>
    /\ zlast.op = "chomp_n" /\ zlast.arg = 2 /\ zlast.ret = 2
    /\ zlast.args.rule = [fn |-> "chomp_unit"] /\ zlast.args.n = 1
    /\ zlast.args.ex_types = {"AssertionError"}

\* the rule chained over a block of one even token yielded nothing on a
\* state that holds results: the state returned is another one, one token
\* on, holding the same results
C14_WitnessEmptyYield ==
    /\ zdata = <<1, 2, 1>> /\ Len(zs) = 3
    /\ zs[2].state = 1 /\ Contents(2) = <<1, 2, 3>>
    /\ Returned("chomp_n", 2) /\ zlast.ret = 3
    /\ zlast.args.rule = [fn |-> "chain_fan_odd"] /\ zlast.args.n = 1
    /\ zs[3].state = 2 /\ Contents(3) = <<1, 2, 3>>

\* C15: merging state A then state B gives a state with B's position whose
\* results are A's results followed by B's results; operators applied left
\* to right compose by this law
C15_MergeLaw ==
    zlast.op = "merge" =>
        /\ zs[zlast.ret].state = zs[zlast.args.other].state
        /\ Contents(zlast.ret) =
              zorigin[zlast.ret].held[zlast.arg].results
              \o zorigin[zlast.ret].held[zlast.args.other].results

ZipOperators == {"consume_with", "takewhile", "chomp_n", "or_"}

\* C16: an operator (consume_with, takewhile, chomp_n, or_) that returns
\* normally returns a state whose position is at or after the position of
\* the state it was applied to, and strictly after it when the operator
\* consumed a token: it appended results of a rule, or chomped a block of
\* one token or more
C16_CursorNeverMovesBack ==
    \A i \in 1..Len(zs) :
        (zlast.op \in ZipOperators /\ zlast.arg = i /\ zlast.raised = "none") =>
            /\ zs[zlast.ret].state >= zs[i].state
            /\ zs[zlast.ret].state <= Len(zdata)
            /\ Len(Contents(zlast.ret)) > Len(HeldBy(i)) =>
                    zs[zlast.ret].state > zs[i].state
            /\ (zlast.op = "chomp_n" /\ zlast.ret # i /\ zlast.args.n > 0) =>
                    zs[zlast.ret].state > zs[i].state

\* a greedy takewhile moved a derived state two tokens on
C16_Witness ==
    /\ zdata = <<2, 1, 1>> /\ Len(zs) = 3
    /\ zorigin[2].op = "or_" /\ zs[2].state = 1
    /\ Returned("takewhile", 2) /\ zlast.ret = 3 /\ zs[3].state = 3

\* C22: chomp_n(n, rule) on a state with fewer than n remaining tokens,
\* fresh or reached by earlier operators, fails with EndOfInputError when
\* that is not among the ex_types, and returns no state
C22_ChompPastEndFails ==
    \A i \in 1..Len(zs) :
        (/\ zlast.op = "chomp_n" /\ zlast.arg = i
         /\ zs[i].state + zlast.args.n > Len(zdata)
         /\ "EndOfInputError" \notin zlast.args.ex_types) =>
            /\ zlast.raised = "EndOfInputError"
            /\ zlast.ret = 0

\* the view of the Zipper object i: its leftover
Leftover(i) == GenericInput(zdata, zs[i].state)

\* the position of every engine state is within the tokens, and on its view
\* item() raises EndOfInputError exactly when empty() is true, which is
\* when the position is at the end; otherwise item() is the current token
CursorInRange ==
    \A i \in 1..Len(zs) :
        /\ 0 <= zs[i].state /\ zs[i].state <= Len(zdata)
        /\ item(Leftover(i)).raised = "EndOfInputError" <=> empty(zdata, zs[i].state)
        /\ empty(zdata, zs[i].state) <=> zs[i].state >= Len(zdata)
        /\ ~empty(zdata, zs[i].state) =>
              item(Leftover(i)) = Returns(zdata[zs[i].state + 1])

\* C24: in every engine state reached from a state at position 0 by the
\* operators, 0 <= position <= len(tokens), the tokens are those the first
\* state was built from, and item() raises EndOfInputError exactly when
\* empty() is true, that is when position >= len(tokens)
C24_CursorWithinTokens ==
    []CursorInRange /\ [][zdata' = zdata]_vars

\* on <<1, 2, 1>> a takewhile went to position 1, where item() is the
\* token 2, and chomp_n(2) from there to the end, where item() raises
C24_Witness ==
    /\ zdata = <<1, 2, 1>> /\ Len(zs) = 3
    /\ zorigin[2].op = "takewhile" /\ zs[2].state = 1
    /\ Returned("chomp_n", 2) /\ zlast.ret = 3 /\ zs[3].state = 3
    /\ item(Leftover(2)) = Returns(2) /\ ~empty(zdata, zs[2].state)
    /\ item(Leftover(3)).raised = "EndOfInputError" /\ empty(zdata, zs[3].state)

====
